---- MODULE Spec2Model ----
(***************************************************************************)
(* Model of lib/HuePlatform.js: bridge discovery (findBridges), the        *)
(* concurrent probing and aggregation of accessories (accessories) and the *)
(* heartbeat timer it sets up.                                             *)
(*                                                                         *)
(* One HuePlatform object is modelled.  accessories() may be invoked up to *)
(* MaxRuns times on it; every invocation ("run") owns the locals of its    *)
(* closure (accessoryList, promises) while this.bridges, the interval      *)
(* timers of the event loop and the log belong to the platform/process.    *)
(***************************************************************************)
EXTENDS Integers, Sequences, FiniteSets, TLC

\* ----- bounds of the model ------------------------------------------------
MaxRuns == 2        \* invocations of accessories() on the platform
MaxBridges == 2     \* length of a host list / discovery response
MaxTicks == 2       \* fires of one interval timer explored in Spec

\* ----- program constants --------------------------------------------------
MaxAccessories == 99             \* while (accessoryList.length > 99)
Week == 7 * 24 * 3600            \* beat %= 7 * 24 * 3600

Runs == 1 .. MaxRuns
StatusCodes == {200, 503}

\* Bridge addresses "10.0.0.<i>", written as their last octet i.
Addresses == 1 .. MaxBridges

\* Host lists (static configuration, or the portal's answer): n distinct
\* addresses, n = 0 .. MaxBridges, in ascending or in descending order.
Ascending(n) == [i \in 1 .. n |-> i]
Descending(n) == [i \in 1 .. n |-> n + 1 - i]
HostLists == {Ascending(n) : n \in 0 .. MaxBridges} \cup
             {Descending(n) : n \in 0 .. MaxBridges}

\* Sizes of the accessory list one bridge probe may resolve with: none, or a
\* little under or over half the cap, so that two bridges together stay under
\* the cap (48 + 48), reach it exactly (48 + 51) or exceed it (51 + 51).
AccCounts == {0, MaxAccessories \div 2 - 1, MaxAccessories \div 2 + 2}

\* ----- values -------------------------------------------------------------
\* JavaScript null versus an array: a value handed to findBridges' callback.
NullJson == [isNull |-> TRUE, list |-> <<>>]
Json(list) == [isNull |-> FALSE, list |-> list]

\* this.config.hosts: undefined, or the array built by the constructor.
NoHosts == [defined |-> FALSE, list |-> <<>>]
Hosts(list) == [defined |-> TRUE, list |-> list]

Descriptor(host) == [internalipaddress |-> host]

\* An accessory of the bridge handle this.bridges[h]: its position k in the
\* list that bridge's probe resolved with.
Accessory(h, k) == [bridge |-> h, n |-> k]
ProbeList(h, c) == [k \in 1 .. c |-> Accessory(h, k)]

\* Log entries (this.log.error).
PortalError(text) == [text |-> text, acc |-> Accessory(0, 0)]
TooMany(a) == [text |-> "too many accessories, ignoring", acc |-> a]
ProbeError == [text |-> "err.message", acc |-> Accessory(0, 0)]

\* ----- findBridges -------------------------------------------------------
\* Variant: the response is built with unshift, which reverses the hosts.
StaticResponseReversed(list) ==
  [i \in 1 .. Len(list) |-> Descriptor(list[Len(list) + 1 - i])]

\* Static hosts: response.push({internalipaddress: host}) for each host.
StaticResponse(list) == [i \in 1 .. Len(list) |-> Descriptor(list[i])]

\* What the request library may hand the callback of request(): a transport
\* error (no response), or a response with a status code and a JSON body.
Bodies == {StaticResponse(l) : l \in HostLists}
NoResponse == [err |-> FALSE, statusCode |-> 0, body |-> <<>>]
Responses ==
  {[err |-> TRUE, statusCode |-> 0, body |-> <<>>]} \cup
  {[err |-> FALSE, statusCode |-> s, body |-> b] : s \in StatusCodes, b \in Bodies}

\* Variant: the status code of the response is not looked at.
RequestOutcomeAnyStatus(resp) ==
  IF resp.err
  THEN [json |-> NullJson,
        log |-> <<PortalError("meethue portal: communication error")>>]
  ELSE IF Len(resp.body) = 0
  THEN [json |-> NullJson,
        log |-> <<PortalError("meethue portal: no bridges registered")>>]
  ELSE [json |-> Json(resp.body), log |-> <<>>]

\* The callback of request(): the value handed to findBridges' callback and
\* the errors logged on the way.
RequestOutcome(resp) ==
  IF resp.err
  THEN [json |-> NullJson,
        log |-> <<PortalError("meethue portal: communication error")>>]
  ELSE IF resp.statusCode # 200
  THEN [json |-> NullJson, log |-> <<PortalError("meethue portal: status")>>]
  ELSE IF Len(resp.body) = 0
  THEN [json |-> NullJson,
        log |-> <<PortalError("meethue portal: no bridges registered")>>]
  ELSE [json |-> Json(resp.body), log |-> <<>>]

VARIABLES
  hosts,      \* this.config.hosts
  bridges,    \* this.bridges: sequence of bridge handles
  pc,         \* pc[r]: where run r of accessories() stands
  response,   \* response[r]: what the callback of request() received in run r
  json,       \* json[r]: value findBridges handed to its callback in run r
  fbCalls,    \* fbCalls[r]: times findBridges invoked its callback in run r
  promises,   \* promises[r]: the probes of run r, in push order
  reason,     \* reason[r]: does the rejection reason of Promise.all carry a message
  delivered,  \* delivered[r]: list last handed to the callback of accessories()
  cbCalls,    \* cbCalls[r]: times run r invoked the callback of accessories()
  errlog,     \* errlog[r]: errors logged by run r, in order
  timers      \* interval timers of the event loop, in creation order

vars == <<hosts, bridges, pc, response, json, fbCalls, promises, reason, delivered,
          cbCalls, errlog, timers>>

\* ----- constructor --------------------------------------------------------
\* config.host absent (falsy), or normalised to an array (possibly empty).
Init ==
  /\ hosts \in {NoHosts} \cup {Hosts(l) : l \in HostLists}
  /\ bridges = <<>>
  /\ pc = [r \in Runs |-> "idle"]
  /\ response = [r \in Runs |-> NoResponse]
  /\ json = [r \in Runs |-> NullJson]
  /\ fbCalls = [r \in Runs |-> 0]
  /\ promises = [r \in Runs |-> <<>>]
  /\ reason = [r \in Runs |-> FALSE]
  /\ delivered = [r \in Runs |-> <<>>]
  /\ cbCalls = [r \in Runs |-> 0]
  /\ errlog = [r \in Runs |-> <<>>]
  /\ timers = <<>>

\* ----- probes and their join ----------------------------------------------
\* new HueBridge(this, obj.internalipaddress): a handle that has received no
\* heartbeat yet (beats counts them, last holds the latest beat value, and
\* failedAt the number of the first heartbeat that failed, 0 when none has).
NewBridge(address) ==
  [address |-> address, beats |-> 0, last |-> <<>>, failedAt |-> 0]

\* bridge.accessories(): a pending promise for the probe of this.bridges[h].
\* rank tells as which of its run's probes it settled (0 while pending).
NewProbe(h) == [bridge |-> h, state |-> "pending", value |-> <<>>, rank |-> 0]

\* How many of the probes ps have settled.
Settled(ps) == Cardinality({i \in 1 .. Len(ps) : ps[i].state # "pending"})

\* Variant: a join that waits for every promise and overlooks rejections.
PromiseAllSettled(cur, ps) ==
  IF cur # "join" THEN cur
  ELSE IF \A i \in 1 .. Len(ps) : ps[i].state # "pending" THEN "fulfilled"
  ELSE "join"

\* Variant: a join that fulfils as soon as one promise has fulfilled.
PromiseAllAny(cur, ps) ==
  IF cur # "join" THEN cur
  ELSE IF \E i \in 1 .. Len(ps) : ps[i].state = "rejected" THEN "rejected"
  ELSE IF Len(ps) = 0 \/ \E i \in 1 .. Len(ps) : ps[i].state = "fulfilled"
       THEN "fulfilled"
  ELSE "join"

\* Promise.all(promises) seen from run state cur ("join" while it is pending):
\* it rejects as soon as one promise has rejected, fulfils once all have
\* fulfilled, and is settled only once.
PromiseAll(cur, ps) ==
  IF cur # "join" THEN cur
  ELSE IF \E i \in 1 .. Len(ps) : ps[i].state = "rejected" THEN "rejected"
  ELSE IF \A i \in 1 .. Len(ps) : ps[i].state = "fulfilled" THEN "fulfilled"
  ELSE "join"

\* Variant: each new handle is put in front of the list (unshift for push).
HandlesUnshifted(bs, list) ==
  [i \in 1 .. Len(list) |->
     NewBridge(list[Len(list) + 1 - i].internalipaddress)] \o bs

\* this.bridges after the for loop over the descriptors list:
\* this.bridges.push(bridge) for each of them.
Handles(bs, list) ==
  bs \o [i \in 1 .. Len(list) |-> NewBridge(list[i].internalipaddress)]

\* Variant: only the first probe is issued before the join.
ProbesFirstOnly(base, n) ==
  [i \in 1 .. (IF n > 0 THEN 1 ELSE 0) |-> NewProbe(base + i)]

\* promises after the for loop: promises.push(bridge.accessories()) for each
\* of the n new handles this.bridges[base + 1 .. base + n].
Probes(base, n) == [i \in 1 .. n |-> NewProbe(base + i)]

\* The callback accessories() passes to findBridges, applied to js in run r.
OnBridges(r, js, log) ==
  LET n == Len(js.list)
      base == Len(bridges)
      ps == Probes(base, n)
  IN  /\ json' = [json EXCEPT ![r] = js]
      /\ fbCalls' = [fbCalls EXCEPT ![r] = @ + 1]
      /\ errlog' = [errlog EXCEPT ![r] = @ \o log]
      /\ IF js.isNull
         THEN /\ pc' = [pc EXCEPT ![r] = "nojson"]
              /\ UNCHANGED <<bridges, promises>>
         ELSE /\ bridges' = Handles(bridges, js.list)
              /\ promises' = [promises EXCEPT ![r] = ps]
              /\ pc' = [pc EXCEPT ![r] = PromiseAll("join", ps)]
      /\ UNCHANGED <<hosts, reason, delivered, cbCalls, timers>>

\* accessories(callback) is invoked for the r-th time (a caller that invokes
\* it again does so after the previous invocation has come to its end):
\* findBridges answers at once from the static hosts, or issues the request
\* to the portal.
Accessories(r) ==
  /\ pc[r] = "idle"
  /\ IF r = 1 THEN TRUE ELSE pc[r - 1] \in {"nojson", "done", "failed"}
  /\ IF hosts.defined
     THEN OnBridges(r, Json(StaticResponse(hosts.list)), <<>>)
     ELSE /\ pc' = [pc EXCEPT ![r] = "request"]
          /\ UNCHANGED <<hosts, bridges, json, fbCalls, promises, reason,
                         delivered, cbCalls, errlog, timers>>
  /\ UNCHANGED response

\* The callback of request() runs with response resp.
RequestDoneSilent(r, resp) ==
  /\ pc[r] = "request"
  /\ response' = [response EXCEPT ![r] = resp]
  /\ LET out == RequestOutcome(resp)
     IN  IF resp.err
         THEN /\ errlog' = [errlog EXCEPT ![r] = @ \o out.log]
              /\ pc' = [pc EXCEPT ![r] = "nojson"]
              /\ UNCHANGED <<hosts, bridges, json, fbCalls, promises, reason,
                             delivered, cbCalls, timers>>
         ELSE OnBridges(r, out.json, out.log)

RequestDone(r, resp) ==
  /\ pc[r] = "request"
  /\ response' = [response EXCEPT ![r] = resp]
  /\ LET out == RequestOutcome(resp) IN OnBridges(r, out.json, out.log)

\* The probe promises[r][i] resolves with a list of c accessories.  (Once
\* Promise.all has settled no code reads its inputs any more: settlements
\* after that are not modelled.)
ProbeFulfil(r, i, c) ==
  /\ pc[r] = "join"
  /\ i \in 1 .. Len(promises[r])
  /\ promises[r][i].state = "pending"
  /\ LET ps == [promises[r] EXCEPT
                  ![i] = [@ EXCEPT !.state = "fulfilled",
                                   !.value = ProbeList(promises[r][i].bridge, c),
                                   !.rank = Settled(promises[r]) + 1]]
     IN  /\ promises' = [promises EXCEPT ![r] = ps]
         /\ pc' = [pc EXCEPT ![r] = PromiseAll(@, ps)]
  /\ UNCHANGED <<hosts, response, bridges, json, fbCalls, reason, delivered, cbCalls,
                 errlog, timers>>

\* The probe promises[r][i] rejects; msg tells whether err.message is set.
ProbeReject(r, i, msg) ==
  /\ pc[r] = "join"
  /\ i \in 1 .. Len(promises[r])
  /\ promises[r][i].state = "pending"
  /\ LET ps == [promises[r] EXCEPT
                  ![i] = [@ EXCEPT !.state = "rejected",
                                   !.rank = Settled(promises[r]) + 1]]
     IN  /\ promises' = [promises EXCEPT ![r] = ps]
         /\ pc' = [pc EXCEPT ![r] = PromiseAll(@, ps)]
         /\ reason' = [reason EXCEPT ![r] = msg]
  /\ UNCHANGED <<hosts, response, bridges, json, fbCalls, delivered, cbCalls, errlog,
                 timers>>

\* ----- the .then handler --------------------------------------------------
\* Variant: the results in the order in which the probes completed.
ByCompletion(ps) ==
  [k \in 1 .. Len(ps) |-> ps[CHOOSE i \in 1 .. Len(ps) : ps[i].rank = k].value]

\* lists: the values Promise.all resolves with, in the order of promises.
Lists(ps) == [i \in 1 .. Len(ps) |-> ps[i].value]

\* for (const list of lists) for (const a of list) accessoryList.push(a)
RECURSIVE Flatten(_)
Flatten(lists) ==
  IF Len(lists) = 0 THEN <<>> ELSE Head(lists) \o Flatten(Tail(lists))

\* Variant: the heartbeat is set up whatever the list holds.
StartsHeartbeatAlways(list) == Len(list) >= 0

\* if (accessoryList.length > 0)
StartsHeartbeat(list) == Len(list) > 0

\* Variant: the cap is compared one too high.
OverCapLate(list) == Len(list) > MaxAccessories + 1

\* while (accessoryList.length > 99)
OverCap(list) == Len(list) > MaxAccessories

\* Variant: the loop takes the accessories from the head (shift for pop).
RECURSIVE PopLoopHead(_)
PopLoopHead(acc) ==
  IF Len(acc.list) > MaxAccessories
  THEN PopLoopHead([list |-> Tail(acc.list),
                    log |-> Append(acc.log, TooMany(Head(acc.list)))])
  ELSE acc

\* The while loop on acc = [list |-> accessoryList, log |-> errors logged]:
\* const a = accessoryList.pop(); this.log.error("too many ...", a.name)
RECURSIVE PopLoop(_)
PopLoop(acc) ==
  IF OverCap(acc.list)
  THEN PopLoop([list |-> SubSeq(acc.list, 1, Len(acc.list) - 1),
                log |-> Append(acc.log, TooMany(acc.list[Len(acc.list)]))])
  ELSE acc

\* let beat = -1
InitialBeat == -1

\* Variant: the counter starts at 0 although it is incremented before use.
NewTimerFromZero(r) == [run |-> r, beat |-> 0, ticks |-> 0]

\* setInterval(function() {...}, 1000) with its captured let beat = -1;
\* ticks counts the fires of the timer.
NewTimer(r) == [run |-> r, beat |-> InitialBeat, ticks |-> 0]

\* Variant: callback is invoked inside the loop over lists, once per list.
ThenCallbackPerList(r) ==
  /\ pc[r] = "fulfilled"
  /\ LET lists == Lists(promises[r])
         accessoryList == Flatten(lists)
         out == PopLoop([list |-> accessoryList, log |-> <<>>])
     IN  /\ timers' = IF StartsHeartbeat(accessoryList)
                      THEN Append(timers, NewTimer(r)) ELSE timers
         /\ errlog' = [errlog EXCEPT ![r] = @ \o out.log]
         /\ delivered' = [delivered EXCEPT ![r] = out.list]
         /\ cbCalls' = [cbCalls EXCEPT ![r] = @ + Len(lists)]
  /\ pc' = [pc EXCEPT ![r] = "done"]
  /\ UNCHANGED <<hosts, response, bridges, json, fbCalls, promises, reason>>

\* .then(function (lists) {...}): the handler of the fulfilled join.
Then(r) ==
  /\ pc[r] = "fulfilled"
  /\ LET lists == Lists(promises[r])
         accessoryList == Flatten(lists)
         out == PopLoop([list |-> accessoryList, log |-> <<>>])
     IN  /\ timers' = IF StartsHeartbeat(accessoryList)
                      THEN Append(timers, NewTimer(r)) ELSE timers
         /\ errlog' = [errlog EXCEPT ![r] = @ \o out.log]
         /\ delivered' = [delivered EXCEPT ![r] = out.list]
         /\ cbCalls' = [cbCalls EXCEPT ![r] = @ + 1]
  /\ pc' = [pc EXCEPT ![r] = "done"]
  /\ UNCHANGED <<hosts, response, bridges, json, fbCalls, promises, reason>>

\* ----- the .catch handler -------------------------------------------------
Catch(r) ==
  /\ pc[r] = "rejected"
  /\ errlog' = [errlog EXCEPT ![r] = IF reason[r] THEN Append(@, ProbeError) ELSE @]
  /\ pc' = [pc EXCEPT ![r] = "failed"]
  /\ UNCHANGED <<hosts, response, bridges, json, fbCalls, promises, reason, delivered,
                 cbCalls, timers>>

\* ----- the heartbeat ------------------------------------------------------
\* JavaScript's % : the result takes the sign of the dividend.
JsRem(a, n) == IF a >= 0 THEN a % n ELSE -((-a) % n)

\* Variant: the increment is missing (in JavaScript -1 % n is -1).
NextBeatNoIncrement(beat) == JsRem(beat, Week)

\* beat += 1; beat %= 7 * 24 * 3600;
NextBeat(beat) == JsRem(beat + 1, Week)

\* bridge.heartbeat(beat)
HeartbeatTwice(bridge, beat) ==
  [bridge EXCEPT !.beats = @ + 2, !.last = <<beat>>]

Heartbeat(bridge, beat) ==
  [bridge EXCEPT !.beats = @ + 1, !.last = <<beat>>]

\* Variant: beat += 1 has slipped into the loop over the bridges.
NotifyIncrementing(bs, beat) ==
  [i \in 1 .. Len(bs) |-> Heartbeat(bs[i], beat + i - 1)]

\* Variant: the loop is left at the first bridge whose heartbeat has failed.
NotifyUntilFailed(bs, beat) ==
  [i \in 1 .. Len(bs) |->
     IF \E j \in 1 .. i : bs[j].failedAt > 0 THEN bs[i] ELSE Heartbeat(bs[i], beat)]

\* for (const bridge of this.bridges) bridge.heartbeat(beat)
Notify(bs, beat) == [i \in 1 .. Len(bs) |-> Heartbeat(bs[i], beat)]

\* The heartbeat this.bridges[i] was notified of fails.  The bridge deals with
\* the outcome of its own request; nothing is handed back to the timer.
HeartbeatFails(i) ==
  /\ i \in 1 .. Len(bridges)
  /\ bridges[i].beats > 0
  /\ bridges[i].failedAt = 0
  /\ bridges' = [bridges EXCEPT ![i] = [@ EXCEPT !.failedAt = bridges[i].beats]]
  /\ UNCHANGED <<hosts, response, pc, json, fbCalls, promises, reason,
                 delivered, cbCalls, errlog, timers>>

\* The interval timer timers[t] fires (at most limit times).
Fire(t, limit) ==
  /\ t \in 1 .. Len(timers)
  /\ timers[t].ticks < limit
  /\ LET beat == NextBeat(timers[t].beat)
     IN  /\ timers' = [timers EXCEPT ![t] = [@ EXCEPT !.beat = beat,
                                                      !.ticks = @ + 1]]
         /\ bridges' = Notify(bridges, beat)
  /\ UNCHANGED <<hosts, response, pc, json, fbCalls, promises, reason, delivered,
                 cbCalls, errlog>>

\* ----- specifications -----------------------------------------------------
\* What may happen to run r of accessories().
Step(r) ==
  \/ Accessories(r)
  \/ \E resp \in Responses : RequestDone(r, resp)
  \/ \E i \in 1 .. MaxBridges, c \in AccCounts : ProbeFulfil(r, i, c)
  \/ \E i \in 1 .. MaxBridges, msg \in BOOLEAN : ProbeReject(r, i, msg)
  \/ Then(r)
  \/ Catch(r)

\* The platform as homebridge drives it: accessories() is invoked once.
Next ==
  \/ Step(1)
  \/ \E t \in Runs : Fire(t, MaxTicks)

Spec == Init /\ [][Next]_vars

\* The same with heartbeats that fail inside their bridge.
NextFailing ==
  \/ Step(1)
  \/ \E t \in Runs : Fire(t, MaxTicks)
  \/ \E i \in 1 .. MaxBridges : HeartbeatFails(i)

SpecFailing == Init /\ [][NextFailing]_vars

\* The same with the event loop running every handler that is due: the
\* handler of a settled promise is queued as a microtask and is run.
\* (Then(1) is the one step that takes pc[1] from "fulfilled" to "done";
\* the fairness condition is stated on that effect.)
ThenRuns == pc[1] = "fulfilled" /\ pc' = [pc EXCEPT ![1] = "done"]

SpecFair == Spec /\ WF_pc(ThenRuns)

\* accessories() is a public method: a caller may invoke it again.
NextRepeat ==
  \/ \E r \in Runs : Step(r)
  \/ \E t \in Runs : Fire(t, MaxTicks)

SpecRepeat == Init /\ [][NextRepeat]_vars

\* The heartbeat over more than a week of ticks.  It starts in the state Spec
\* reaches by Accessories(1), ProbeFulfil(1, 1, c), Then(1) with the single
\* static host 1: the list is delivered and the timer has just been set up.
BeatCount == MaxAccessories \div 2 - 1
InitBeat ==
  /\ hosts = Hosts(Ascending(1))
  /\ bridges = <<NewBridge(1)>>
  /\ pc = [r \in Runs |-> IF r = 1 THEN "done" ELSE "idle"]
  /\ response = [r \in Runs |-> NoResponse]
  /\ json = [r \in Runs |->
               IF r = 1 THEN Json(StaticResponse(Ascending(1))) ELSE NullJson]
  /\ fbCalls = [r \in Runs |-> IF r = 1 THEN 1 ELSE 0]
  /\ promises = [r \in Runs |->
        IF r = 1
        THEN <<[bridge |-> 1, state |-> "fulfilled",
                value |-> ProbeList(1, BeatCount), rank |-> 1]>>
        ELSE <<>>]
  /\ reason = [r \in Runs |-> FALSE]
  /\ delivered = [r \in Runs |-> IF r = 1 THEN ProbeList(1, BeatCount) ELSE <<>>]
  /\ cbCalls = [r \in Runs |-> IF r = 1 THEN 1 ELSE 0]
  /\ errlog = [r \in Runs |-> <<>>]
  /\ timers = <<NewTimer(1)>>

NextTicks == \E t \in Runs : Fire(t, Week + MaxTicks)

SpecBeat == InitBeat /\ [][NextTicks]_vars

\* ----- properties: the accessory list --------------------------------------
\* Run r has handed a list to the callback of accessories().
Delivered(r) == cbCalls[r] > 0

\* Run r started an interval timer.
TimerOf(r) == \E t \in 1 .. Len(timers) : timers[t].run = r

\* The accessories the probes of run r resolved with, and how many they are.
Elements(list) == {list[j] : j \in 1 .. Len(list)}
Probed(r) ==
  UNION {Elements(promises[r][i].value) : i \in 1 .. Len(promises[r])}

RECURSIVE SumTo(_, _)
SumTo(r, i) == IF i = 0 THEN 0 ELSE Len(promises[r][i].value) + SumTo(r, i - 1)
Total(r) == SumTo(r, Len(promises[r]))

\* Bridge enumeration order: an earlier bridge handle first, and within one
\* bridge the order of its own list.
Before(a, b) == a.bridge < b.bridge \/ (a.bridge = b.bridge /\ a.n < b.n)
InEnumerationOrder(list) ==
  \A j \in 1 .. Len(list) : \A k \in 1 .. Len(list) :
    j < k => Before(list[j], list[k])

\* The handles of run r were created in the order of the descriptors, one
\* per descriptor, and its i-th probe is the probe of its i-th handle.
FollowsDiscovery(r) ==
  /\ Len(promises[r]) = Len(json[r].list)
  /\ \A i \in 1 .. Len(promises[r]) :
       /\ promises[r][i].bridge \in 1 .. Len(bridges)
       /\ bridges[promises[r][i].bridge].address = json[r].list[i].internalipaddress
       /\ i > 1 => promises[r][i - 1].bridge < promises[r][i].bridge

\* The "too many accessories" errors run r logged, in order.
IsTooMany(e) == e.text = "too many accessories, ignoring"
Removals(r) == SelectSeq(errlog[r], IsTooMany)

\* C1: every accessory list handed to the callback of accessories() has at
\* most 99 entries.
C1_AtMostCap == \A r \in Runs : Len(delivered[r]) <= MaxAccessories

\* A run whose probes returned more than 99 accessories has delivered.
C1_Witness ==
  \E r \in Runs : Delivered(r) /\ Total(r) > MaxAccessories
                  /\ Len(delivered[r]) = MaxAccessories

\* C2: once a probe of a run has failed, that run never invokes the callback
\* and never starts the heartbeat timer, whatever the other probes did.
C2_FailFast ==
  \A r \in Runs :
    (\E i \in 1 .. Len(promises[r]) : promises[r][i].state = "rejected")
      => ~Delivered(r) /\ ~TimerOf(r)

\* The catch handler has run for a join in which every probe but the
\* rejected one had succeeded with accessories.
C2_Witness ==
  \E r \in Runs :
    /\ pc[r] = "failed"
    /\ Len(promises[r]) >= 2
    /\ \E i \in 1 .. Len(promises[r]) :
         /\ promises[r][i].state = "rejected"
         /\ \A j \in 1 .. Len(promises[r]) :
              j # i => promises[r][j].state = "fulfilled"
                       /\ Len(promises[r][j].value) > 0

\* C3: when the probes of a run return at most 99 accessories in total, the
\* delivered list holds exactly these accessories, ordered by bridge
\* enumeration order as produced by discovery and, within one bridge, in the
\* bridge's own order, in whatever order the probes completed.
C3_EnumerationOrder ==
  \A r \in Runs :
    Delivered(r) /\ Total(r) <= MaxAccessories
      => /\ Len(delivered[r]) = Total(r)
         /\ Elements(delivered[r]) = Probed(r)
         /\ InEnumerationOrder(delivered[r])
         /\ FollowsDiscovery(r)

\* A list was delivered although the probe of the second bridge completed
\* before the probe of the first, both with accessories.
C3_Witness ==
  \E r \in Runs :
    /\ Delivered(r) /\ Total(r) <= MaxAccessories
    /\ Len(promises[r]) >= 2
    /\ promises[r][2].rank < promises[r][1].rank
    /\ Len(promises[r][1].value) > 0 /\ Len(promises[r][2].value) > 0

\* C4: when the probes of a run return S > 99 accessories, the delivered list
\* is the first 99 of the flattened enumeration order and exactly S - 99
\* removal errors are logged, one for each accessory dropped.
C4_Truncation ==
  \A r \in Runs :
    Delivered(r) /\ Total(r) > MaxAccessories
      => /\ Len(delivered[r]) = MaxAccessories
         /\ InEnumerationOrder(delivered[r])
         /\ Elements(delivered[r]) \subseteq Probed(r)
         /\ \A a \in Probed(r) \ Elements(delivered[r]) :
              \A d \in Elements(delivered[r]) : Before(d, a)
         /\ Len(Removals(r)) = Total(r) - MaxAccessories
         /\ {e.acc : e \in Elements(Removals(r))} =
              Probed(r) \ Elements(delivered[r])

\* A run delivered after dropping more than one accessory from the tail.
C4_Witness ==
  \E r \in Runs :
    /\ Delivered(r)
    /\ Total(r) > MaxAccessories + 1
    /\ Len(Removals(r)) > 1

\* C5: a run has started the heartbeat timer if and only if it delivered a
\* non-empty list.
C5_TimerIffNonEmpty ==
  \A r \in Runs : TimerOf(r) <=> (Delivered(r) /\ Len(delivered[r]) > 0)

\* A run probed its bridges, delivered the empty list and started no timer.
C5_Witness ==
  \E r \in Runs :
    /\ Delivered(r) /\ Len(promises[r]) > 0
    /\ delivered[r] = <<>> /\ ~TimerOf(r)

\* ----- properties: the heartbeat -------------------------------------------
\* C6 (as claimed): at most one heartbeat timer is ever active on a platform,
\* also when accessories() is invoked again.
C6_AtMostOneTimer == Len(timers) <= 1

\* C7: the k-th fire of the timer carries beat (k - 1) mod 604800 to the
\* bridges: 0 first, then one more each tick, 0 again after 604799.
C7_BeatSequence ==
  \A t \in 1 .. Len(timers) :
    timers[t].ticks > 0
      => /\ timers[t].beat = (timers[t].ticks - 1) % 604800
         /\ Len(timers) = 1
              => \A i \in 1 .. Len(bridges) :
                   /\ bridges[i].beats = timers[t].ticks
                   /\ bridges[i].last = <<(timers[t].ticks - 1) % 604800>>

\* The timer has fired twice: the bridge was handed 0 and then 1.
C7_Witness ==
  \E t \in 1 .. Len(timers) :
    /\ timers[t].ticks = 2
    /\ timers[t].beat = 1
    /\ \E i \in 1 .. Len(bridges) :
         bridges[i].beats = 2 /\ bridges[i].last = <<1>>

\* Reached under SpecBeat after 604801 fires: the beat has wrapped to 0 and
\* the bridge has been handed that 0 (C7 and C8 are checked through it).
BeatWrapped ==
  \E t \in 1 .. Len(timers) :
    /\ timers[t].ticks = 604800 + 1
    /\ timers[t].beat = 0
    /\ \E i \in 1 .. Len(bridges) : bridges[i].last = <<0>>

\* C8: after the first tick the beat counter is in 0 .. 604799, and so is
\* every beat value a bridge's heartbeat has been handed (never -1).
C8_BeatRange ==
  /\ \A t \in 1 .. Len(timers) :
       timers[t].ticks > 0 => 0 <= timers[t].beat /\ timers[t].beat < 604800
  /\ \A i \in 1 .. Len(bridges) :
       bridges[i].beats > 0
         => 0 <= bridges[i].last[1] /\ bridges[i].last[1] < 604800

\* The timer has fired for the first time and a bridge was handed its beat.
C8_Witness ==
  \E t \in 1 .. Len(timers) :
    /\ timers[t].ticks = 1
    /\ \E i \in 1 .. Len(bridges) :
         bridges[i].beats = 1 /\ Len(bridges[i].last) = 1

\* ----- properties: discovery ------------------------------------------------
\* The request to the portal of run r has been answered by a failure: a
\* transport error, a status other than 200, or a body with no entries.
DiscoveryFailed(r) ==
  /\ ~hosts.defined
  /\ pc[r] \notin {"idle", "request"}
  /\ \/ response[r].err
     \/ response[r].statusCode # 200
     \/ Len(response[r].body) = 0

\* The bridge handles run r created: none.
NoHandles(r) == Len(promises[r]) = 0 /\ Len(bridges) = 0

\* C9 (as claimed): after a failed discovery accessories() has created no
\* bridge handle, has handed the empty list to its callback and has started
\* no heartbeat timer.
C9_EmptyListOnFailedDiscovery ==
  DiscoveryFailed(1)
    => /\ NoHandles(1)
       /\ Delivered(1) /\ delivered[1] = <<>>
       /\ ~TimerOf(1)

\* C10: after a failed discovery findBridges has handed its caller a result
\* without any descriptor, once, and has logged exactly one error.
PortalTexts ==
  {"meethue portal: communication error", "meethue portal: status",
   "meethue portal: no bridges registered"}
C10_FailedDiscoveryIsEmpty ==
  \A r \in Runs :
    DiscoveryFailed(r)
      => /\ fbCalls[r] = 1
         /\ json[r].isNull /\ Len(json[r].list) = 0
         /\ Len(errlog[r]) = 1
         /\ errlog[r][1].text \in PortalTexts

\* findBridges has answered a response with status 503 that carried bridges.
C10_Witness ==
  \E r \in Runs :
    /\ DiscoveryFailed(r)
    /\ response[r].statusCode = 503
    /\ Len(response[r].body) > 0
    /\ fbCalls[r] = 1

\* C11: with a non-empty static host list findBridges hands its caller
\* exactly the configured hosts as descriptors, in the configured order,
\* before accessories() returns, and no request to the portal is ever issued.
C11_StaticHosts ==
  hosts.defined /\ Len(hosts.list) > 0
    => \A r \in Runs :
         /\ pc[r] # "request"
         /\ response[r] = NoResponse
         /\ pc[r] # "idle"
              => /\ fbCalls[r] = 1
                 /\ ~json[r].isNull
                 /\ Len(json[r].list) = Len(hosts.list)
                 /\ \A i \in 1 .. Len(hosts.list) :
                      json[r].list[i].internalipaddress = hosts.list[i]

\* findBridges has answered from two static hosts given in descending order.
C11_Witness ==
  /\ hosts.defined /\ Len(hosts.list) = 2
  /\ hosts.list[1] > hosts.list[2]
  /\ fbCalls[1] = 1


\* ----- properties: the bridge list ------------------------------------------
AddressesOf(bs) == [i \in 1 .. Len(bs) |-> bs[i].address]

\* The addresses findBridges handed to run r, in its order.
DiscoveredAddresses(r) ==
  IF fbCalls[r] > 0 /\ ~json[r].isNull
  THEN [i \in 1 .. Len(json[r].list) |-> json[r].list[i].internalipaddress]
  ELSE <<>>

\* Promise.all of run r has settled.
JoinSettled(r) == pc[r] \in {"fulfilled", "rejected", "done", "failed"}

SomeFailed(bs) == \E i \in 1 .. Len(bs) : bs[i].failedAt > 0

C14_OneNotificationPerTick ==
  \A i \in 1 .. Len(bridges) :
    /\ bridges[i].beats = (IF Len(timers) = 0 THEN 0 ELSE timers[1].ticks)
    /\ \A j \in 1 .. Len(bridges) :
         /\ bridges[i].beats = bridges[j].beats
         /\ bridges[i].last = bridges[j].last

\* Two bridges after the second tick: two notifications each, both hold 1.
C14_Witness ==
  /\ Len(bridges) = 2 /\ Len(timers) = 1
  /\ timers[1].ticks = 2
  /\ \A i \in 1 .. 2 : bridges[i].beats = 2 /\ bridges[i].last = <<1>>

\* C15: a bridge that has received a heartbeat belongs to a platform whose
\* accessory list has been handed to the callback, and after the first fire
\* each bridge has received exactly one heartbeat, carrying 0.
C15_FirstHeartbeat ==
  /\ \A i \in 1 .. Len(bridges) :
       bridges[i].beats > 0 => Delivered(1) /\ Len(delivered[1]) > 0
  /\ \A t \in 1 .. Len(timers) :
       /\ Delivered(timers[t].run)
       /\ timers[t].ticks = 1
            => \A i \in 1 .. Len(bridges) :
                 bridges[i].beats = 1 /\ bridges[i].last = <<0>>

\* The list has been delivered, and the one fire since then has handed 0 to
\* a bridge that had received nothing before.
C15_Witness ==
  /\ Delivered(1)
  /\ Len(timers) = 1 /\ timers[1].ticks = 1
  /\ Len(bridges) > 0
  /\ bridges[1].beats = 1 /\ bridges[1].last = <<0>>

\* ----- properties: the probes and the join -----------------------------------
\* C16: from the moment findBridges has handed over a list of descriptors, a
\* probe has been issued for each of its handles, the i-th for the i-th
\* handle, whatever the state of the other probes.
C16_AllProbesStarted ==
  fbCalls[1] > 0 /\ ~json[1].isNull
    => /\ Len(promises[1]) = Len(json[1].list)
       /\ Len(promises[1]) = Len(bridges)
       /\ \A i \in 1 .. Len(promises[1]) : promises[1][i].bridge = i

\* The join is pending over two probes, both issued, neither settled.
C16_Witness ==
  /\ pc[1] = "join"
  /\ Len(promises[1]) = 2
  /\ \A i \in 1 .. 2 : promises[1][i].state = "pending"

\* A probe of run r is outstanding and none has failed.
Outstanding(r) ==
  /\ \E i \in 1 .. Len(promises[r]) : promises[r][i].state = "pending"
  /\ \A i \in 1 .. Len(promises[r]) : promises[r][i].state # "rejected"

\* Every probe of run r has succeeded.
AllSucceeded(r) ==
  /\ fbCalls[r] > 0 /\ ~json[r].isNull
  /\ \A i \in 1 .. Len(promises[r]) : promises[r][i].state = "fulfilled"

\* C17: while a probe is outstanding and none has failed the callback has
\* not been invoked and no timer has been started; once every probe has
\* succeeded the callback is eventually invoked.
C17_UnlimitedWait ==
  /\ [](Outstanding(1) => ~Delivered(1) /\ ~TimerOf(1))
  /\ AllSucceeded(1) ~> Delivered(1)

\* One probe has resolved with accessories, the other is outstanding: the
\* join is still pending and nothing has been delivered.
C17_Witness ==
  /\ Len(promises[1]) = 2
  /\ promises[1][1].state = "fulfilled" /\ Len(promises[1][1].value) > 0
  /\ promises[1][2].state = "pending"
  /\ pc[1] = "join" /\ ~Delivered(1)

\* C18: the callback of accessories() has been invoked at most once, and
\* only by the handler of the fulfilled join.
C18_CallbackAtMostOnce ==
  \A r \in Runs :
    /\ cbCalls[r] <= 1
    /\ cbCalls[r] = 1 <=> pc[r] = "done"

\* The callback was invoked once after two probes resolved, the second one
\* first.
C18_Witness ==
  /\ cbCalls[1] = 1
  /\ Len(promises[1]) = 2
  /\ promises[1][2].rank = 1 /\ promises[1][1].rank = 2

\* ----- properties: findBridges ---------------------------------------------
\* C19: findBridges has invoked its callback once as soon as the request has
\* been answered, whatever the answer, and not before; with static hosts it
\* has done so when accessories() returns, and never more than once.
C19_CallbackExactlyOnce ==
  \A r \in Runs :
    /\ fbCalls[r] <= 1
    /\ pc[r] \in {"idle", "request"} => fbCalls[r] = 0
    /\ pc[r] \notin {"idle", "request"} => fbCalls[r] = 1
    /\ hosts.defined => pc[r] # "request"
    /\ ~hosts.defined /\ pc[r] # "idle" /\ response[r] = NoResponse
         => pc[r] = "request"

\* The portal's request failed in transit and the callback was invoked once.
C19_Witness ==
  /\ ~hosts.defined
  /\ response[1].err
  /\ fbCalls[1] = 1 /\ json[1].isNull

====
